---- MODULE Spec2Model ----
(***************************************************************************)
(* Model of the Dataset class of kge-server (src/dataset.py): the entity   *)
(* classifier, the vocabulary indexer, the triplet loader, the splitter    *)
(* and the binary persistence.                                             *)
(*                                                                         *)
(* Python values are modelled as follows.                                  *)
(*  - A URI string is the sequence of its '/'-separated segments, i.e. the *)
(*    result of value.split('/'); split is injective, so two strings are   *)
(*    equal iff their segment sequences are.  Python's uri[k] is Seg(u,k). *)
(*  - A raised exception is an outcome named after the exception class.    *)
(*  - Python's False is the tag "False".                                   *)
(***************************************************************************)
EXTENDS Integers, Sequences, FiniteSets, TLC

VARIABLES
    \* ---- the process running the Dataset class -------------------------
    entities,        \* class attribute Dataset.entities        (a list)
    entities_dict,   \* class attribute Dataset.entities_dict   (a dict)
    relations,       \* class attribute Dataset.relations       (a list)
    relations_dict,  \* class attribute Dataset.relations_dict  (a dict)
    subs,            \* class attribute Dataset.subs            (a list)
    inst,            \* per instance: the attributes set on the instance itself
    disk,            \* the file system: what the data file holds
    boots,           \* how many times the process has been started again
    last,            \* the last call: operation, instance, outcome
    trip,            \* progress of a save/load/save/load round trip
    \* ---- one call of extract_entity -------------------------------------
    cl_entity, cl_filters, cl_result,
    \* ---- one call of train_split ----------------------------------------
    sp_subs, sp_ratio, sp_perm, sp_result

vars == <<entities, entities_dict, relations, relations_dict, subs, inst, disk,
          boots, last, trip, cl_entity, cl_filters, cl_result,
          sp_subs, sp_ratio, sp_perm, sp_result>>

dataset_vars == <<entities, entities_dict, relations, relations_dict, subs,
                  inst, disk, boots, last, trip>>
classifier_vars == <<cl_entity, cl_filters, cl_result>>
splitter_vars == <<sp_subs, sp_ratio, sp_perm, sp_result>>

-----------------------------------------------------------------------------
(* EntityClassifier: extract_entity                                        *)

WIKIDATA_HOST == "www.wikidata.org"

\* Python's 0-based uri[k] on the list of segments.
Seg(uri, k) == uri[k + 1]
HasSeg(uri, k) == Len(uri) > k

Uri(segs) == [type |-> "uri", value |-> segs]

\* Bindings under the graph-store host.
B_entity    == Uri(<<"http:", "", WIKIDATA_HOST, "entity", "Q1">>)
B_entity2   == Uri(<<"http:", "", WIKIDATA_HOST, "entity", "Q2">>)
B_prop      == Uri(<<"http:", "", WIKIDATA_HOST, "prop", "direct", "P31">>)
B_statement == Uri(<<"http:", "", WIKIDATA_HOST, "entity", "statement", "Q1-a">>)
B_reference == Uri(<<"http:", "", WIKIDATA_HOST, "reference", "abc">>)
B_unknown   == Uri(<<"http:", "", WIKIDATA_HOST, "wiki", "Q1">>)
B_unknown6  == Uri(<<"http:", "", WIKIDATA_HOST, "wiki", "Special", "Q1">>)
B_four      == Uri(<<"http:", "", WIKIDATA_HOST, "wiki">>)
B_four_ent  == Uri(<<"http:", "", WIKIDATA_HOST, "entity">>)
B_four_ref  == Uri(<<"http:", "", WIKIDATA_HOST, "reference">>)
B_host_only == Uri(<<"http:", "", WIKIDATA_HOST>>)
\* Bindings under another authority, of several segment layouts.
B_ext       == Uri(<<"http:", "", "example.org", "thing">>)
B_ext_host  == Uri(<<"http:", "", "example.org">>)
B_ext_ref   == Uri(<<"http:", "", "dbpedia.org", "reference", "x">>)
B_ext_stmt  == Uri(<<"http:", "", "dbpedia.org", "entity", "statement", "x">>)
B_ext_prop  == Uri(<<"https:", "", "schema.org", "prop">>)
\* A value with no authority segment at all.
B_urn       == Uri(<<"urn:isbn:1">>)
\* The other kinds.
B_literal   == [type |-> "literal", value |-> <<"42">>]
B_bnode     == [type |-> "bnode", value |-> <<"b0">>]
B_other     == [type |-> "typed-literal", value |-> <<"1">>]

Bindings == {B_entity, B_entity2, B_prop, B_statement, B_reference, B_unknown,
             B_unknown6, B_four, B_four_ent, B_four_ref, B_host_only,
             B_ext, B_ext_host, B_ext_ref, B_ext_stmt, B_ext_prop, B_urn,
             B_literal, B_bnode, B_other}

NoBinding == [type |-> "none", value |-> <<>>]

FilterKeys == {"wdt-entity", "wdt-reference", "wdt-statement", "wdt-prop",
               "literal", "bnode"}
Filters == [FilterKeys -> BOOLEAN]
DefaultFilters == [k \in FilterKeys |->
                     k \in {"wdt-entity", "wdt-statement", "wdt-prop"}]

\* What a call returns or raises.  tag "str": the string entity["value"];
\* tag "dict": the binding itself; tag "False"; otherwise the exception raised.
RetStr(entity)  == [tag |-> "str", val |-> entity]
RetDict(entity) == [tag |-> "dict", val |-> entity]
RetFalse        == [tag |-> "False", val |-> NoBinding]
Raise(exc)      == [tag |-> exc, val |-> NoBinding]
Raised(r)       == r.tag \notin {"str", "dict", "False"}

\* extract_uri with the last host test lost: the catch-all rejection also
\* takes the values of other authorities.
extract_uri_reject_all(entity, filters) ==
    LET uri == entity.value IN
    IF ~HasSeg(uri, 2) THEN Raise("IndexError")
    ELSE IF Seg(uri, 2) # WIKIDATA_HOST THEN RetFalse
    ELSE IF ~HasSeg(uri, 3) THEN Raise("IndexError")
    ELSE IF Seg(uri, 3) = "reference" /\ filters["wdt-reference"] THEN RetStr(entity)
    ELSE IF ~HasSeg(uri, 4) THEN Raise("IndexError")
    ELSE IF Seg(uri, 4) = "statement" /\ filters["wdt-statement"] THEN RetStr(entity)
    ELSE IF Seg(uri, 3) = "entity" /\ filters["wdt-entity"] THEN RetStr(entity)
    ELSE IF Seg(uri, 3) = "prop" /\ filters["wdt-prop"] THEN RetStr(entity)
    ELSE RetFalse

\* The elif chain of a 'uri' binding, each test evaluated left to right with
\* Python's short-circuit 'and': uri[k] raises IndexError past the last segment.
extract_uri(entity, filters) ==
    LET uri == entity.value IN
    IF ~HasSeg(uri, 2) THEN Raise("IndexError")
    ELSE IF Seg(uri, 2) # WIKIDATA_HOST THEN RetStr(entity)
    ELSE IF ~HasSeg(uri, 3) THEN Raise("IndexError")
    ELSE IF Seg(uri, 3) = "reference" /\ filters["wdt-reference"] THEN RetStr(entity)
    ELSE IF ~HasSeg(uri, 4) THEN Raise("IndexError")
    ELSE IF Seg(uri, 4) = "statement" /\ filters["wdt-statement"] THEN RetStr(entity)
    ELSE IF Seg(uri, 3) = "entity" /\ filters["wdt-entity"] THEN RetStr(entity)
    ELSE IF Seg(uri, 3) = "prop" /\ filters["wdt-prop"] THEN RetStr(entity)
    ELSE RetFalse

extract_entity(entity, filters) ==
    IF entity.type = "uri" THEN extract_uri(entity, filters)
    ELSE IF entity.type = "literal" /\ filters["literal"] THEN RetDict(entity)
    ELSE IF entity.type = "bnode" /\ filters["literal"] THEN RetDict(entity)
    ELSE RetFalse

-----------------------------------------------------------------------------
(* DatasetSplitter: train_split                                            *)

\* An element of a triplet list.  kind "tuple": a 3-tuple of ids, as appended
\* by load_dataset_from_json.  kind "matrix": the 1-tuple (matrix([[..]]),)
\* that tuple(x) yields for a row x of a numpy matrix (iterating a matrix
\* yields 1 x k matrices, and iterating such a row yields the row again).
\* kind "objects": such a 1-tuple whose row holds Python objects, not ids.
Triple(o, s, p) == [kind |-> "tuple", row |-> <<o, s, p>>]
MatRow(r)       == [kind |-> "matrix", row |-> r]
ObjRow          == [kind |-> "objects", row |-> <<>>]

\* np.matrix(list) ends in one of three ways.
\*  "int":     a list of 3-tuples gives an N x 3 matrix; the empty list
\*             gives a matrix of shape (1, 0), i.e. one empty row.
\*  "raise":   a list of 1-tuples of matrices is 4-dimensional:
\*             ValueError("matrix must be 2-dimensional").
\*  "ragged":  a list mixing 3-tuples and 1-tuples has no common shape;
\*             depending on the numpy release np.array raises ValueError or
\*             builds a 1-d object array, which np.matrix turns into one row.
MatrixShape(store) ==
    IF \A i \in 1..Len(store) : store[i].kind = "tuple" THEN "int"
    ELSE IF \A i \in 1..Len(store) : store[i].kind # "tuple" THEN "raise"
    ELSE "ragged"

RaggedOutcomes == {"ValueError", "object"}

MatrixRaises(store, ragged) ==
    \/ MatrixShape(store) = "raise"
    \/ MatrixShape(store) = "ragged" /\ ragged = "ValueError"

\* The rows of np.matrix(store), each already in the form tuple(x) gives it.
np_matrix(store, ragged) ==
    IF MatrixShape(store) = "ragged" THEN <<ObjRow>>
    ELSE IF store = <<>> THEN <<MatRow(<<>>)>>
    ELSE [i \in 1..Len(store) |-> MatRow(store[i].row)]

\* The ratios a caller passes, named by their Python float literal.
Ratios == {"0.8", "0.5", "0.25", "0.75"}

\* int((1 - ratio) * n) in IEEE double arithmetic.  1 - 0.8 is the double
\* 0.19999999999999996, so the product falls just below k when n = 5k and
\* int() truncates it to k - 1; seven decimal digits of that double give the
\* same integer for every n up to several thousand.  The other ratios and
\* their complements are exact in binary.
holdout(ratio, n) ==
    CASE ratio = "0.8"  -> (n * 1999999) \div 10000000
      [] ratio = "0.5"  -> n \div 2
      [] ratio = "0.25" -> (n * 3) \div 4
      [] ratio = "0.75" -> n \div 4

\* Python slicing seq[start:stop] for integer bounds; a negative bound counts
\* from the end, and -0 is 0.
PyIndex(i, n) == IF i < 0 THEN (IF n + i < 0 THEN 0 ELSE n + i)
                 ELSE (IF i > n THEN n ELSE i)
PySlice(seq, start, stop) ==
    LET a == PyIndex(start, Len(seq))
        b == PyIndex(stop, Len(seq))
    IN IF a < b THEN SubSeq(seq, a + 1, b) ELSE <<>>
PySliceTo(seq, stop)    == PySlice(seq, 0, stop)
PySliceFrom(seq, start) == PySlice(seq, start, Len(seq))

\* The permutations np.random.shuffle can leave in indices.
Shuffles(n) == IF n = 0 THEN {<<>>} ELSE Permutations(1..n)

SplitOk(tr, va, te) ==
    [tag |-> "ok", train_subs |-> tr, valid_subs |-> va, test_subs |-> te]
SplitRaise(exc) ==
    [tag |-> exc, train_subs |-> <<>>, valid_subs |-> <<>>, test_subs |-> <<>>]

\* x_val with the inner bound rounded up instead of truncated.
x_val_rounded_up(data, train_samples) ==
    PySlice(data, -train_samples, -((train_samples + 1) \div 2))

x_val(data, train_samples) ==
    PySlice(data, -train_samples, -(train_samples \div 2))

train_split(store, ratio, perm, ragged) ==
    IF MatrixRaises(store, ragged) THEN SplitRaise("ValueError")
    ELSE LET rows == np_matrix(store, ragged)
             data == [i \in 1..Len(rows) |-> rows[perm[i]]]
             train_samples == holdout(ratio, Len(rows))
         IN SplitOk(PySliceTo(data, -train_samples),
                    x_val(data, train_samples),
                    PySliceFrom(data, -(train_samples \div 2)))

MatrixRowCount(store) == IF MatrixShape(store) = "ragged" \/ store = <<>>
                         THEN 1 ELSE Len(store)

-----------------------------------------------------------------------------
(* VocabularyIndexer: add_element                                          *)

\* A dict is a function from its keys to their values.
EmptyDict == [k \in {} |-> 0]
DictPut(d, key, v) == [k \in DOMAIN d \cup {key} |-> IF k = key THEN v ELSE d[k]]

\* What add_element returns (an id or False) or raises, with the list and
\* the dict as the call leaves them.
Added(tag, id, list, dict) == [tag |-> tag, id |-> id, list |-> list, dict |-> dict]

add_element(element, complete_list, complete_list_dict, only_uri) ==
    LET key == element.val.value IN
    IF only_uri /\ element.tag # "str"
      THEN Added("False", -1, complete_list, complete_list_dict)
    ELSE IF element.tag = "False"
      THEN Added("False", -1, complete_list, complete_list_dict)
    ELSE IF element.tag = "dict"
      \* a dict is unhashable: the lookup raises TypeError, which is not caught
      THEN Added("TypeError", -1, complete_list, complete_list_dict)
    ELSE IF key \in DOMAIN complete_list_dict
      THEN Added("id", complete_list_dict[key], complete_list, complete_list_dict)
    ELSE Added("id", Len(complete_list), Append(complete_list, key),
               DictPut(complete_list_dict, key, Len(complete_list)))

-----------------------------------------------------------------------------
(* TripletLoader: load_dataset_from_json                                   *)

\* An item of the iterable handed to load_dataset_from_json: a binding
\* record, or something that is no record (an int, a list).
Record(o, s, p) == [kind |-> "record", object |-> o, subject |-> s, predicate |-> p]
NonRecord(kind) == [kind |-> kind, object |-> NoBinding, subject |-> NoBinding,
                    predicate |-> NoBinding]

R_ok       == Record(B_entity, B_ext, B_prop)
R_rev      == Record(B_ext, B_entity, B_prop)
R_rej_obj  == Record(B_literal, B_entity, B_prop)
R_rej_subj == Record(B_ext, B_unknown, B_prop)
R_rej_pred == Record(B_ext, B_entity, B_bnode)
R_raise    == Record(B_entity, B_four, B_prop)
R_rej_raise == Record(B_literal, B_ext, B_four)
Records == {R_ok, R_rev, R_rej_obj, R_rej_subj, R_rej_pred, R_raise, R_rej_raise}

\* The lists and dicts the loader works on, and the exception that ended it.
Mem(e, ed, r, rd, t, exc) ==
    [entities |-> e, entities_dict |-> ed, relations |-> r,
     relations_dict |-> rd, subs |-> t, exc |-> exc]

\* load_triplet leaving the record at its first rejected sub-binding, before
\* the sub-bindings after it are interned.
load_triplet_skip_early(m, triplet, only_uri) ==
    IF triplet.kind # "record" THEN [m EXCEPT !.exc = "TypeError"]
    ELSE
    LET c_obj == extract_entity(triplet.object, DefaultFilters)
        a_obj == add_element(c_obj, m.entities, m.entities_dict, only_uri)
        c_subj == extract_entity(triplet.subject, DefaultFilters)
        a_subj == add_element(c_subj, a_obj.list, a_obj.dict, only_uri)
        c_pred == extract_entity(triplet.predicate, DefaultFilters)
        a_pred == add_element(c_pred, m.relations, m.relations_dict, only_uri)
        m1 == [m EXCEPT !.entities = a_obj.list, !.entities_dict = a_obj.dict]
        m2 == [m EXCEPT !.entities = a_subj.list, !.entities_dict = a_subj.dict]
        m3 == [m2 EXCEPT !.relations = a_pred.list, !.relations_dict = a_pred.dict]
    IN  IF Raised(c_obj) THEN [m EXCEPT !.exc = c_obj.tag]
        ELSE IF a_obj.tag = "TypeError" THEN [m EXCEPT !.exc = "TypeError"]
        ELSE IF a_obj.tag = "False" THEN m
        ELSE IF Raised(c_subj) THEN [m1 EXCEPT !.exc = c_subj.tag]
        ELSE IF a_subj.tag = "TypeError" THEN [m1 EXCEPT !.exc = "TypeError"]
        ELSE IF a_subj.tag = "False" THEN m1
        ELSE IF Raised(c_pred) THEN [m2 EXCEPT !.exc = c_pred.tag]
        ELSE IF a_pred.tag = "TypeError" THEN [m2 EXCEPT !.exc = "TypeError"]
        ELSE IF a_pred.tag = "False" THEN m2
        ELSE [m3 EXCEPT !.subs = Append(m3.subs, Triple(a_obj.id, a_subj.id, a_pred.id))]

\* One iteration of the for loop (lines 80-87).
load_triplet(m, triplet, only_uri) ==
    IF triplet.kind # "record"
      \* triplet["object"] on an int or a list
      THEN [m EXCEPT !.exc = "TypeError"]
    ELSE
    LET c_obj == extract_entity(triplet.object, DefaultFilters)
        a_obj == add_element(c_obj, m.entities, m.entities_dict, only_uri)
        c_subj == extract_entity(triplet.subject, DefaultFilters)
        a_subj == add_element(c_subj, a_obj.list, a_obj.dict, only_uri)
        c_pred == extract_entity(triplet.predicate, DefaultFilters)
        a_pred == add_element(c_pred, m.relations, m.relations_dict, only_uri)
        m1 == [m EXCEPT !.entities = a_obj.list, !.entities_dict = a_obj.dict]
        m2 == [m EXCEPT !.entities = a_subj.list, !.entities_dict = a_subj.dict]
        m3 == [m2 EXCEPT !.relations = a_pred.list, !.relations_dict = a_pred.dict]
    IN  IF Raised(c_obj) THEN [m EXCEPT !.exc = c_obj.tag]
        ELSE IF a_obj.tag = "TypeError" THEN [m EXCEPT !.exc = "TypeError"]
        ELSE IF Raised(c_subj) THEN [m1 EXCEPT !.exc = c_subj.tag]
        ELSE IF a_subj.tag = "TypeError" THEN [m1 EXCEPT !.exc = "TypeError"]
        ELSE IF Raised(c_pred) THEN [m2 EXCEPT !.exc = c_pred.tag]
        ELSE IF a_pred.tag = "TypeError" THEN [m2 EXCEPT !.exc = "TypeError"]
        ELSE IF a_obj.tag = "False" \/ a_subj.tag = "False" \/ a_pred.tag = "False"
          THEN m3
        ELSE [m3 EXCEPT !.subs = Append(m3.subs, Triple(a_obj.id, a_subj.id, a_pred.id))]

\* The for loop over json; an exception ends it where it is raised.
RECURSIVE load_json(_, _, _)
load_json(m, json, only_uri) ==
    IF json = <<>> \/ m.exc # "none" THEN m
    ELSE load_json(load_triplet(m, Head(json), only_uri), Tail(json), only_uri)

-----------------------------------------------------------------------------
(* The Dataset class, its instances and the file system                    *)

MaxBatch == 1       \* records in one call of load_dataset_from_json
MaxSubs == 2        \* triplets loaded into one triplet store
MaxBoots == 1       \* restarts of the process
MaxN == 5           \* triplets handed to one call of train_split

Instances == {1, 2}
Callers == {1}

\* An instance's own attributes.  "absent": not constructed; "class": the
\* instance __dict__ is empty, so self.entities, self.relations and self.subs
\* are the class attributes; "own": load_from_binary has assigned them.
NoAttrs(state) == [state |-> state, entities |-> <<>>, relations |-> <<>>, subs |-> <<>>]
OwnAttrs(e, r, t) == [state |-> "own", entities |-> e, relations |-> r, subs |-> t]

Alive(i) == inst[i].state # "absent"

\* Attribute lookup self.<name>: the instance's own attribute if set, else
\* the class attribute.  The two dicts are never assigned on an instance.
self_entities(i)  == IF inst[i].state = "own" THEN inst[i].entities ELSE entities
self_relations(i) == IF inst[i].state = "own" THEN inst[i].relations ELSE relations
self_subs(i)      == IF inst[i].state = "own" THEN inst[i].subs ELSE subs

SelfMem(i) == Mem(self_entities(i), entities_dict, self_relations(i),
                  relations_dict, self_subs(i), "none")

\* The paths a caller may pass and what open() does with them.
GoodPath == "data.bin"
Paths == {GoodPath, "nodir/data.bin", "readonly/data.bin", "datadir"}

NoFile == [exists |-> FALSE, entities |-> <<>>, relations |-> <<>>,
           train_subs |-> <<>>, valid_subs |-> <<>>, test_subs |-> <<>>]
File(e, r, split) == [exists |-> TRUE, entities |-> e, relations |-> r,
                      train_subs |-> split.train_subs,
                      valid_subs |-> split.valid_subs,
                      test_subs |-> split.test_subs]

\* open(path, "wb+") and open(path, "rb"): "ok" or the OSError raised.
open_wb(path) ==
    CASE path = GoodPath             -> "ok"
      [] path = "nodir/data.bin"     -> "FileNotFoundError"
      [] path = "readonly/data.bin"  -> "PermissionError"
      [] path = "datadir"            -> "IsADirectoryError"
open_rb(path) ==
    IF path = GoodPath THEN (IF disk.exists THEN "ok" ELSE "FileNotFoundError")
    ELSE open_wb(path)

\* A call as its caller sees it: the operation, the instance it was made
\* on, and what it returned ("None", "True", "False") or raised.
Call(op, i, outcome) == [op |-> op, inst |-> i, outcome |-> outcome]

NoTrip == [phase |-> 0, inst |-> 0]

DatasetInit ==
    /\ entities = <<>>
    /\ entities_dict = EmptyDict
    /\ relations = <<>>
    /\ relations_dict = EmptyDict
    /\ subs = <<>>
    /\ inst = [i \in Instances |-> NoAttrs("absent")]
    /\ disk = NoFile
    /\ boots = 0
    /\ last = Call("import", 0, "None")
    /\ trip = NoTrip

\* Dataset(): the class defines no __init__, so a new instance has no
\* attributes of its own.
Construct(i) ==
    /\ ~Alive(i)
    /\ inst' = [inst EXCEPT ![i] = NoAttrs("class")]
    /\ last' = Call("Dataset", i, "None")
    /\ trip' = NoTrip
    /\ UNCHANGED <<entities, entities_dict, relations, relations_dict, subs,
                   disk, boots>>

\* The loader's lists written back to where self.<name> found them: the
\* appends are in place, on the instance's own list or on the class's.
StoreMem(i, m) ==
    /\ entities_dict' = m.entities_dict
    /\ relations_dict' = m.relations_dict
    /\ IF inst[i].state = "own"
         THEN /\ inst' = [inst EXCEPT ![i] = OwnAttrs(m.entities, m.relations, m.subs)]
              /\ UNCHANGED <<entities, relations, subs>>
         ELSE /\ entities' = m.entities
              /\ relations' = m.relations
              /\ subs' = m.subs
              /\ UNCHANGED inst

Outcome(exc) == IF exc = "none" THEN "None" ELSE exc

Batches == UNION {[1..n -> Records] : n \in 1..MaxBatch}

load_dataset_from_json(i, json, only_uri) ==
    /\ Alive(i)
    /\ \E m \in {load_json(SelfMem(i), json, only_uri)} :
         /\ Len(m.subs) <= MaxSubs
         /\ StoreMem(i, m)
         /\ last' = Call("load_dataset_from_json", i, Outcome(m.exc))
    /\ trip' = NoTrip
    /\ UNCHANGED <<disk, boots>>

\* execute_query returns the pair (status_code, bindings), or the request
\* raises.  The pair itself is what load_dataset_from_json then iterates.
StatusCodes == {200, 500}
execute_query(status, bindings) ==
    <<NonRecord("int"), NonRecord("list")>>   \* (status_code, bindings)

load_dataset_from_query(i, status, bindings, only_uri) ==
    /\ Alive(i)
    /\ \E jsonlist \in {execute_query(status, bindings)} :
       \E m \in {load_json(SelfMem(i), jsonlist, only_uri)} :
          /\ StoreMem(i, m)
          /\ last' = Call("load_dataset_from_query", i, Outcome(m.exc))
    /\ trip' = NoTrip
    /\ UNCHANGED <<disk, boots>>

load_dataset_from_query_fails(i) ==
    /\ Alive(i)
    /\ last' = Call("load_dataset_from_query", i, "ConnectionError")
    /\ trip' = NoTrip
    /\ UNCHANGED <<entities, entities_dict, relations, relations_dict, subs,
                   inst, disk, boots>>

-----------------------------------------------------------------------------
(* Persistence: save_to_binary, load_from_binary                           *)

DefaultRatio == "0.8"

save_outcome(split, path) ==
    IF split.tag # "ok" THEN split.tag                \* raised by train_split
    ELSE IF open_wb(path) = "ok" THEN "True"
    ELSE IF open_wb(path) = "FileNotFoundError" THEN "False"
    ELSE open_wb(path)                                \* not caught: raised

save_to_binary(i, path, perm, ragged) ==
    /\ Alive(i)
    /\ \E subs2 \in {train_split(self_subs(i), DefaultRatio, perm, ragged)} :
       LET outcome == save_outcome(subs2, path)
       IN /\ disk' = IF outcome = "True"
                       THEN File(self_entities(i), self_relations(i), subs2)
                       ELSE disk
          /\ last' = Call("save_to_binary", i, outcome)
          /\ trip' = IF trip.phase = 2 /\ trip.inst = i /\ open_wb(path) = "ok"
                       THEN [phase |-> 3, inst |-> i]
                     ELSE IF outcome = "True" /\ self_subs(i) # <<>>
                       THEN [phase |-> 1, inst |-> i]
                     ELSE NoTrip
    /\ UNCHANGED <<entities, entities_dict, relations, relations_dict, subs,
                   inst, boots>>

load_outcome(path) ==
    IF open_rb(path) = "ok" THEN "True"
    ELSE IF open_rb(path) = "FileNotFoundError" THEN "False"
    ELSE open_rb(path)                                \* not caught: raised

load_from_binary(i, path) ==
    /\ Alive(i)
    /\ inst' = IF load_outcome(path) = "True"
                 THEN [inst EXCEPT ![i] =
                         OwnAttrs(disk.entities, disk.relations,
                                  disk.train_subs \o disk.valid_subs \o disk.test_subs)]
                 ELSE inst
    /\ last' = Call("load_from_binary", i, load_outcome(path))
    /\ trip' = IF load_outcome(path) = "True" /\ trip.inst = i /\ trip.phase \in {1, 3}
                 THEN [phase |-> trip.phase + 1, inst |-> i]
                 ELSE NoTrip
    /\ UNCHANGED <<entities, entities_dict, relations, relations_dict, subs,
                   disk, boots>>

\* The process ends and the module is imported again: the class body runs
\* anew (lines 9-13), no instance exists, the files stay.
NewProcess ==
    /\ boots < MaxBoots
    /\ boots' = boots + 1
    /\ entities' = <<>>
    /\ entities_dict' = EmptyDict
    /\ relations' = <<>>
    /\ relations_dict' = EmptyDict
    /\ subs' = <<>>
    /\ inst' = [i \in Instances |-> NoAttrs("absent")]
    /\ last' = Call("import", 0, "None")
    /\ trip' = NoTrip
    /\ UNCHANGED disk

-----------------------------------------------------------------------------
(* Specifications                                                          *)

NoResult == [tag |-> "none", val |-> NoBinding]
NoSplit == SplitRaise("none")

ClassifierIdle == cl_entity = NoBinding /\ cl_filters = DefaultFilters
                  /\ cl_result = NoResult
SplitterIdle == sp_subs = <<>> /\ sp_ratio = DefaultRatio /\ sp_perm = <<>>
                /\ sp_result = NoSplit

Init == DatasetInit /\ ClassifierIdle /\ SplitterIdle

\* One Dataset object per process: loading, saving, reloading, restarting.
Next ==
    \/ \E i \in Callers : Construct(i) /\ UNCHANGED <<classifier_vars, splitter_vars>>
    \/ \E i \in Callers, json \in Batches, only_uri \in BOOLEAN :
          load_dataset_from_json(i, json, only_uri)
          /\ UNCHANGED <<classifier_vars, splitter_vars>>
    \/ \E i \in Callers, path \in Paths, ragged \in RaggedOutcomes :
          \E perm \in Shuffles(MatrixRowCount(self_subs(i))) :
             save_to_binary(i, path, perm, ragged)
             /\ UNCHANGED <<classifier_vars, splitter_vars>>
    \/ \E i \in Callers, path \in Paths :
          load_from_binary(i, path) /\ UNCHANGED <<classifier_vars, splitter_vars>>
    \/ NewProcess /\ UNCHANGED <<classifier_vars, splitter_vars>>

Spec == Init /\ [][Next]_vars

\* Two Dataset objects in one process, filled by the triplet loaders.
LoadNext ==
    \/ \E i \in Instances : Construct(i) /\ UNCHANGED <<classifier_vars, splitter_vars>>
    \/ \E i \in Instances, json \in Batches, only_uri \in BOOLEAN :
          load_dataset_from_json(i, json, only_uri)
          /\ UNCHANGED <<classifier_vars, splitter_vars>>
    \/ \E i \in Instances, status \in StatusCodes, bindings \in Batches,
          only_uri \in BOOLEAN :
          load_dataset_from_query(i, status, bindings, only_uri)
          /\ UNCHANGED <<classifier_vars, splitter_vars>>
    \/ \E i \in Instances :
          load_dataset_from_query_fails(i)
          /\ UNCHANGED <<classifier_vars, splitter_vars>>

SpecLoad == Init /\ [][LoadNext]_vars

\* One call of extract_entity on any binding under any filter configuration.
ExtractInit == DatasetInit /\ SplitterIdle /\ cl_entity \in Bindings
               /\ cl_filters \in Filters /\ cl_result = NoResult

ExtractCall ==
    /\ cl_result = NoResult
    /\ cl_result' = extract_entity(cl_entity, cl_filters)
    /\ UNCHANGED <<cl_entity, cl_filters, dataset_vars, splitter_vars>>

SpecExtract == ExtractInit /\ [][ExtractCall]_vars

\* One call of train_split on a store of N distinct triplets.
Store(n) == [k \in 1..n |-> Triple(k - 1, k, 0)]

SplitInit == DatasetInit /\ ClassifierIdle /\ sp_subs \in {Store(n) : n \in 0..MaxN}
             /\ sp_ratio \in Ratios /\ sp_perm = <<>> /\ sp_result = NoSplit

SplitCall ==
    /\ sp_result = NoSplit
    /\ \E perm \in Shuffles(MatrixRowCount(sp_subs)), ragged \in RaggedOutcomes :
          /\ sp_perm' = perm
          /\ sp_result' = train_split(sp_subs, sp_ratio, perm, ragged)
    /\ UNCHANGED <<sp_subs, sp_ratio, dataset_vars, classifier_vars>>

SpecSplit == SplitInit /\ [][SplitCall]_vars

-----------------------------------------------------------------------------
(* Claims about extract_entity (SpecExtract)                               *)

Called == cl_result # NoResult
UnderHost(entity) == entity.type = "uri" /\ HasSeg(entity.value, 2)
                     /\ Seg(entity.value, 2) = WIKIDATA_HOST
OtherAuthority(entity) == entity.type = "uri" /\ HasSeg(entity.value, 2)
                          /\ Seg(entity.value, 2) # WIKIDATA_HOST

\* A layout under the host that is none of reference, statement, entity, prop;
\* segment 3 exists, segment 4 need not.
UnknownLayout(entity) ==
    /\ UnderHost(entity)
    /\ HasSeg(entity.value, 3)
    /\ Seg(entity.value, 3) \notin {"reference", "entity", "prop"}
    /\ ~(HasSeg(entity.value, 4) /\ Seg(entity.value, 4) = "statement")

\* C7: a uri binding under the graph-store host whose layout matches none of
\* reference, statement, entity, prop (four-segment values included) is
\* answered with the rejection sentinel under every filter configuration,
\* and no exception is raised.
C7_UnknownLayoutRejected ==
    Called /\ UnknownLayout(cl_entity) => cl_result = RetFalse

\* C8: a uri binding whose authority segment is not the graph-store host is
\* admitted with its raw value, under every filter configuration and for
\* every layout of the segments after the authority.
C8_OtherAuthorityAdmitted ==
    Called /\ OtherAuthority(cl_entity) => cl_result = RetStr(cl_entity)

\* C8 witness: a value of another authority with "entity"/"statement" in
\* segments 3 and 4 was admitted with every filter switched off.
C8_Witness ==
    /\ cl_entity = B_ext_stmt
    /\ cl_filters = [k \in FilterKeys |-> FALSE]
    /\ cl_result = RetStr(B_ext_stmt)

-----------------------------------------------------------------------------
(* Claims about train_split (SpecSplit)                                    *)

Split == sp_result # NoSplit
Rows(list) == [i \in 1..Len(list) |-> list[i].row]

\* floor((1 - ratio) * N) in exact arithmetic.
exact_holdout(ratio, n) ==
    CASE ratio = "0.8"  -> n \div 5
      [] ratio = "0.5"  -> n \div 2
      [] ratio = "0.25" -> (n * 3) \div 4
      [] ratio = "0.75" -> n \div 4

\* C2: with N triplets and H = floor((1 - ratio) * N), train_split returns
\* train = shuffled[0 .. N-H), valid = shuffled[N-H .. N-floor(H/2)) and
\* test = shuffled[N-floor(H/2) .. N) of one permutation of the store, so the
\* parts hold every position exactly once and have N-H, H-floor(H/2) and
\* floor(H/2) elements.  Read here on the non-empty stores.
C2_SplitIsPartition ==
    Split /\ sp_subs # <<>> =>
      LET N == Len(sp_subs)
          H == exact_holdout(sp_ratio, N)
          shuffled == [i \in 1..N |-> sp_subs[sp_perm[i]].row]
      IN /\ sp_result.tag = "ok"
         /\ Rows(sp_result.train_subs) = SubSeq(shuffled, 1, N - H)
         /\ Rows(sp_result.valid_subs) = SubSeq(shuffled, N - H + 1, N - (H \div 2))
         /\ Rows(sp_result.test_subs) = SubSeq(shuffled, N - (H \div 2) + 1, N)

\* The holdout count the call computed (train_samples).
SplitH == holdout(sp_ratio, MatrixRowCount(sp_subs))

\* C10 as stated: when H is odd the test partition has exactly one element
\* more than the valid partition, and when H is even the two are equal.
\* Read here on the splits with H >= 2, whose slice bounds are all nonzero.
C10_OddHoldoutFavoursTest ==
    Split /\ sp_result.tag = "ok" /\ SplitH >= 2 =>
      /\ SplitH % 2 = 1 => Len(sp_result.test_subs) = Len(sp_result.valid_subs) + 1
      /\ SplitH % 2 = 0 => Len(sp_result.test_subs) = Len(sp_result.valid_subs)

\* C10 as amended: when H is odd and at least 3 the valid partition has
\* exactly one element more than the test partition; when H is even and at
\* least 2 the two are equal; when H is 0 or 1 the valid partition is empty
\* and the test partition holds every row.
C10_OddHoldoutFavoursValid ==
    Split /\ sp_result.tag = "ok" =>
      /\ SplitH >= 2 /\ SplitH % 2 = 1 =>
            Len(sp_result.valid_subs) = Len(sp_result.test_subs) + 1
      /\ SplitH >= 2 /\ SplitH % 2 = 0 =>
            Len(sp_result.valid_subs) = Len(sp_result.test_subs)
      /\ SplitH <= 1 =>
            /\ sp_result.valid_subs = <<>>
            /\ Len(sp_result.test_subs) = MatrixRowCount(sp_subs)

\* C10 witness: a split with H = 3 gave two elements to valid, one to test.
C10_Witness ==
    /\ Split /\ sp_result.tag = "ok" /\ SplitH = 3
    /\ Len(sp_result.valid_subs) = 2
    /\ Len(sp_result.test_subs) = 1

-----------------------------------------------------------------------------
(* Claims about the Dataset (Spec, SpecLoad)                               *)

\* What instance i sees as its vocabularies, index maps and triplet store.
View(i) == [entities |-> self_entities(i), entities_dict |-> entities_dict,
            relations |-> self_relations(i), relations_dict |-> relations_dict,
            subs |-> self_subs(i)]

\* index_map[sequence[k]] = k for every position k (ids count from 0).
Synchronized(sequence, index_map) ==
    \A k \in 1..Len(sequence) :
        sequence[k] \in DOMAIN index_map /\ index_map[sequence[k]] = k - 1

\* C1: after any sequence of load_dataset_from_json, save_to_binary and
\* load_from_binary calls, each vocabulary of a Dataset is synchronized with
\* its index map: index_map[sequence[i]] = i at every position i.
C1_VocabularySynchronized ==
    \A i \in Instances : Alive(i) =>
        /\ Synchronized(self_entities(i), entities_dict)
        /\ Synchronized(self_relations(i), relations_dict)

\* C3: once a populated Dataset has gone through one save_to_binary /
\* load_from_binary cycle, a second cycle goes through as well (its save
\* succeeds on the same path) and its load leaves the vocabularies and the
\* triplet store as the first cycle left them.
C3_SecondRoundTripStable ==
    [][ /\ (trip.phase = 2 /\ trip'.phase = 3) => last'.outcome = "True"
        /\ (trip.phase = 3 /\ trip'.phase = 4) =>
              View(trip.inst)' = View(trip.inst) ]_vars

\* C4: load_dataset_from_query leaves the Dataset as load_dataset_from_json
\* leaves it on the bindings the query execution returned, whatever the
\* status code that came with them.
C4_QueryLoadsBindings ==
    [][ \A i \in Instances, status \in StatusCodes, bindings \in Batches,
           only_uri \in BOOLEAN :
          load_dataset_from_query(i, status, bindings, only_uri) =>
            LET m == load_json(SelfMem(i), bindings, only_uri)
            IN View(i)' = [entities |-> m.entities,
                           entities_dict |-> m.entities_dict,
                           relations |-> m.relations,
                           relations_dict |-> m.relations_dict,
                           subs |-> m.subs] ]_vars

EmptyView == [entities |-> <<>>, entities_dict |-> EmptyDict,
              relations |-> <<>>, relations_dict |-> EmptyDict, subs |-> <<>>]

\* C5: a newly constructed Dataset has empty vocabularies and an empty
\* triplet store, and a triplet load into one instance leaves what every
\* other instance sees unchanged.
C5_InstancesIsolated ==
    [][ /\ \A i \in Instances : Construct(i) => View(i)' = EmptyView
        /\ \A i \in Instances, j \in Instances, json \in Batches,
              only_uri \in BOOLEAN :
             (i # j /\ Alive(j) /\ load_dataset_from_json(i, json, only_uri))
               => View(j)' = View(j) ]_vars

\* C6: on a path that cannot be opened, whatever the reason, save_to_binary
\* and load_from_binary return False instead of raising, and leave the
\* vocabularies and the triplet store unchanged.
C6_UnopenablePathReturnsFalse ==
    [][ /\ \A i \in Instances, path \in Paths, ragged \in RaggedOutcomes :
             \A perm \in Shuffles(MatrixRowCount(self_subs(i))) :
               (open_wb(path) # "ok" /\ save_to_binary(i, path, perm, ragged))
                 => (last'.outcome = "False" /\ View(i)' = View(i))
        /\ \A i \in Instances, path \in Paths :
             (open_rb(path) # "ok" /\ load_from_binary(i, path))
               => (last'.outcome = "False" /\ View(i)' = View(i)) ]_vars

\* How the classifier answers a sub-binding under the loader's filters.
Admissible(b) == extract_entity(b, DefaultFilters).tag = "str"
Rejected(b)   == extract_entity(b, DefaultFilters).tag = "False"
HasRejected(t) == Rejected(t.object) \/ Rejected(t.subject) \/ Rejected(t.predicate)
Classified(t)  == \A b \in {t.object, t.subject, t.predicate} :
                     Admissible(b) \/ Rejected(b)

\* A vocabulary after looking a value up and appending it when the index map
\* does not know it.
Interned(voc, value) ==
    IF value \in DOMAIN voc.map THEN voc
    ELSE [seq |-> Append(voc.seq, value),
          map |-> DictPut(voc.map, value, Len(voc.seq))]
InternedIf(cond, voc, b) == IF cond THEN Interned(voc, b.value) ELSE voc

EntityVoc(i) == [seq |-> self_entities(i), map |-> entities_dict]
RelationVoc(i) == [seq |-> self_relations(i), map |-> relations_dict]

\* C9 as stated: a record with a rejected sub-binding leaves the triplet store
\* unchanged and interns only the admissible sub-bindings that precede the
\* first rejected one in the order object, subject, predicate.
C9_InternsOnlyBeforeRejection ==
    [][ \A i \in Instances, t \in Records, only_uri \in BOOLEAN :
          (HasRejected(t) /\ Classified(t)
             /\ last'.op = "load_dataset_from_json"
             /\ load_dataset_from_json(i, <<t>>, only_uri)) =>
            /\ self_subs(i)' = self_subs(i)
            /\ EntityVoc(i)' =
                 InternedIf(~Rejected(t.object) /\ ~Rejected(t.subject),
                            InternedIf(~Rejected(t.object), EntityVoc(i), t.object),
                            t.subject)
            /\ RelationVoc(i)' = RelationVoc(i) ]_vars

\* C9 as amended: a record with a rejected sub-binding leaves the triplet
\* store unchanged and interns every admissible sub-binding that is
\* classified, before or after the rejected one; only a sub-binding whose
\* classification raises ends the record, and nothing after it is interned.
C9_InternsEveryAdmissible ==
    [][ \A i \in Instances, t \in Records, only_uri \in BOOLEAN :
          (HasRejected(t) /\ last'.op = "load_dataset_from_json"
             /\ load_dataset_from_json(i, <<t>>, only_uri)) =>
            LET obj_ok  == Admissible(t.object) \/ Rejected(t.object)
                subj_ok == obj_ok /\ (Admissible(t.subject) \/ Rejected(t.subject))
            IN /\ self_subs(i)' = self_subs(i)
               /\ EntityVoc(i)' =
                    InternedIf(subj_ok /\ Admissible(t.subject),
                               InternedIf(Admissible(t.object), EntityVoc(i), t.object),
                               t.subject)
               /\ RelationVoc(i)' =
                    InternedIf(subj_ok /\ Admissible(t.predicate),
                               RelationVoc(i), t.predicate) ]_vars

\* C9 witness: a record whose object was rejected has been loaded; its
\* subject and its predicate, which come after the object, are interned and
\* no triplet was stored.
C9_Witness ==
    /\ last.op = "load_dataset_from_json" /\ last.outcome = "None"
    /\ entities = <<B_entity.value>>
    /\ relations = <<B_prop.value>>
    /\ subs = <<>>

====
